---- MODULE Spec2Model ----
(***************************************************************************)
(* Model of the PMBM recursion core:                                       *)
(*   src/mot/trackers/multiple_object_trackers/PMBM/common/bernoulli.py    *)
(*   src/mot/trackers/multiple_object_trackers/PMBM/common/                *)
(*       poisson_point_process.py                                          *)
(*                                                                         *)
(* Numbers.  Probabilities are exact rationals <<num, den>>.  Values kept  *)
(* in the log domain (mixture log-weights) are counted in units of ln 2:   *)
(* a finite one is an integer, log(0) is -infinity.  numpy arrays are kept *)
(* with their shape (the leading axes, the per-component trailing axes of  *)
(* means and covariances left out) and their elements in row-major order.  *)
(***************************************************************************)
EXTENDS Integers, Sequences, FiniteSets, TLC

VARIABLES
    intensity,      \* PoissonRFS.intensity: [means, covs, weigths_log], three arrays
    ppp_last,       \* the last call on the PoissonRFS, with the intensity before it
    ppp_prev,       \* the call before that one
    berns,          \* the Bernoulli objects alive, by identity (index)
    bern_last,      \* the last call of a Bernoulli operation and what came of it
    new_tracks,     \* what the last get_targets_detected_for_first_time returned
    targets_last,   \* the last call of get_targets_detected_for_first_time
    max_track_id    \* the identifier Track.from_sth hands out next

vars == <<intensity, ppp_last, ppp_prev, berns, bern_last, new_tracks, targets_last, max_track_id>>

(***************************************************************************)
(* Bounds of the model.                                                    *)
(***************************************************************************)
MaxComponents == 3      \* components a mixture holds at most
MaxBirth == 1           \* components of one birth mixture at most
MaxInit == 2            \* components of the mixture a PoissonRFS is built on at most
MaxDecay == 2           \* finite log-weights stay within -MaxDecay..0
MaxRank == 3            \* leading axes an array has at most
NumStates == 2          \* abstract spatial densities 0..NumStates-1

(***************************************************************************)
(* Log-domain values.                                                      *)
(***************************************************************************)
NegInf == [k |-> "ninf", v |-> 0]

Fin(n) == [k |-> "fin", v |-> n]

\* float addition with -infinity
LogAdd(a, b) == IF a.k = "ninf" \/ b.k = "ninf" THEN NegInf ELSE Fin(a.v + b.v)

\* float comparison a > b
LogGt(a, b) == /\ a.k = "fin"
               /\ (b.k = "ninf" \/ a.v > b.v)

\* np.log of a probability num/den, den a power of two, num in {0, 1}
RECURSIVE Log2(_)
Log2(n) == IF n <= 1 THEN 0 ELSE 1 + Log2(n \div 2)

NpLog(p) == IF p[1] = 0 THEN NegInf ELSE Fin(Log2(p[1]) - Log2(p[2]))

\* 1 - p
OneMinus(p) == <<p[2] - p[1], p[2]>>

Probabilities == {<<0, 1>>, <<1, 2>>, <<1, 1>>}

LogWeights == {NegInf} \cup {Fin(-n) : n \in 0..1}

Thresholds == {NegInf} \cup {Fin(-n) : n \in 0..MaxDecay}

States == 0..(NumStates - 1)

(***************************************************************************)
(* numpy arrays: shape and elements.                                       *)
(***************************************************************************)
Array(shape, data) == [shape |-> shape, data |-> data]

\* a one-axis array of the elements of sequence s
Vector(s) == Array(<<Len(s)>>, s)

RECURSIVE Prod(_)
Prod(s) == IF s = <<>> THEN 1 ELSE Head(s) * Prod(Tail(s))

\* len(a): the length of the first axis
ArrayLen(a) == a.shape[1]

\* elementwise a > threshold: a boolean array of a's shape
Greater(a, threshold) == Array(a.shape, [i \in 1..Len(a.data) |-> LogGt(a.data[i], threshold)])

\* np.squeeze: every axis of length one is dropped; an array of one element
\* becomes a zero-axis (scalar) array
NotOne(d) == d # 1

squeeze(a) == Array(SelectSeq(a.shape, NotOne), a.data)

RECURSIVE CountTrue(_)
CountTrue(s) == IF s = <<>> THEN 0 ELSE (IF Head(s) THEN 1 ELSE 0) + CountTrue(Tail(s))

\* the blocks i of a (each of size b) with mask[i], in order
RECURSIVE KeepBlocks(_, _, _, _)
KeepBlocks(data, mask, b, i) ==
    IF i > Len(mask) THEN <<>>
    ELSE (IF mask[i] THEN SubSeq(data, (i - 1) * b + 1, i * b) ELSE <<>>)
         \o KeepBlocks(data, mask, b, i + 1)

\* a[mask], numpy boolean indexing.  A zero-axis mask acts as a new leading axis
\* of length 1 (True) or 0 (False); a one-axis mask selects along the first axis.
BoolIndex(a, mask) ==
    IF mask.shape = <<>>
    THEN Array(<<IF mask.data[1] THEN 1 ELSE 0>> \o a.shape,
               IF mask.data[1] THEN a.data ELSE <<>>)
    ELSE Array(<<CountTrue(mask.data)>> \o Tail(a.shape),
               KeepBlocks(a.data, mask.data, Prod(Tail(a.shape)), 1))

(***************************************************************************)
(* The mixture (GaussianMixtureNumpy) and the density engine, which are    *)
(* collaborators of the two files.                                         *)
(***************************************************************************)
Mixture(means, covs, weigths_log) == [means |-> means, covs |-> covs, weigths_log |-> weigths_log]

\* a mixture built from a sequence of components [mean, cov, log_weight]
MixtureOf(cs) ==
    Mixture(Vector([i \in 1..Len(cs) |-> cs[i].mean]),
            Vector([i \in 1..Len(cs) |-> cs[i].cov]),
            Vector([i \in 1..Len(cs) |-> cs[i].log_weight]))

\* the components callers supply: a density (its mean and covariance carry the
\* same abstract value) and a log-weight
Components == {[mean |-> x, cov |-> x, log_weight |-> w] : x \in States, w \in LogWeights}

\* len(mixture)
MixtureLen(mix) == ArrayLen(mix.means)

\* Kalman time update of one density (not the identity)
DensityPredict(x) == (x + 1) % NumStates

\* density.predict(means, covs, motion_model, dt), batched over the mixture
DensityPredictBatch(a) == Array(a.shape, [i \in 1..Len(a.data) |-> DensityPredict(a.data[i])])

\* mixture += new_components: concatenation along the first axis
Concat(a, b) == Array(<<a.shape[1] + b.shape[1]>> \o Tail(a.shape), a.data \o b.data)

MixtureIAdd(mix, new) ==
    Mixture(Concat(mix.means, new.means), Concat(mix.covs, new.covs),
            Concat(mix.weigths_log, new.weigths_log))

(***************************************************************************)
(* PoissonRFS: the operations that change the intensity in place.          *)
(***************************************************************************)
\* a call's record: arg is prune's threshold, or the log-domain value that predict
\* and undetected_update add to every log-weight; size is the birth mixture's
PppCall(op, arg, size, outcome, before) ==
    [op |-> op, arg |-> arg, size |-> size, outcome |-> outcome, before |-> before]

PppNote(c) == [op |-> c.op, arg |-> c.arg, outcome |-> c.outcome]

\* self.intensity.weigths_log += x
AddToAll(a, x) == Array(a.shape, [i \in 1..Len(a.data) |-> LogAdd(a.data[i], x)])

WithinDecay(a) == \A i \in 1..Len(a.data) : a.data[i].k = "fin" => a.data[i].v >= -MaxDecay

\* PoissonRFS.undetected_update
undetected_update_result(mix, detection_probability) ==
    Mixture(mix.means, mix.covs, AddToAll(mix.weigths_log, NpLog(OneMinus(detection_probability))))

undetected_update(detection_probability) ==
    /\ WithinDecay(undetected_update_result(intensity, detection_probability).weigths_log)
    /\ intensity' = undetected_update_result(intensity, detection_probability)
    /\ ppp_last' = PppCall("undetected_update", NpLog(OneMinus(detection_probability)), 0, "ok", intensity)
    /\ ppp_prev' = PppNote(ppp_last)
    /\ UNCHANGED <<berns, bern_last, new_tracks, targets_last, max_track_id>>

\* prune with the comparison turned round: weigths_log < threshold
mask_to_keep_less(mix, threshold) ==
    squeeze(Array(mix.weigths_log.shape,
                  [i \in 1..Len(mix.weigths_log.data) |-> LogGt(threshold, mix.weigths_log.data[i])]))

\* prune with the covariances left out of the masking
prune_result_covs_unmasked(mix, threshold) ==
    Mixture(BoolIndex(mix.means, squeeze(Greater(mix.weigths_log, threshold))),
            mix.covs,
            BoolIndex(mix.weigths_log, squeeze(Greater(mix.weigths_log, threshold))))

\* PoissonRFS.prune
mask_to_keep(mix, threshold) == squeeze(Greater(mix.weigths_log, threshold))

prune_result(mix, threshold) ==
    Mixture(BoolIndex(mix.means, mask_to_keep(mix, threshold)),
            BoolIndex(mix.covs, mask_to_keep(mix, threshold)),
            BoolIndex(mix.weigths_log, mask_to_keep(mix, threshold)))

prune(threshold) ==
    /\ Len(prune_result(intensity, threshold).means.shape) <= MaxRank
    /\ intensity' = prune_result(intensity, threshold)
    /\ ppp_last' = PppCall("prune", threshold, 0, "ok", intensity)
    /\ ppp_prev' = PppNote(ppp_last)
    /\ UNCHANGED <<berns, bern_last, new_tracks, targets_last, max_track_id>>

\* PoissonRFS.predict
PoissonRFS_predict_result(mix, survival_probability) ==
    Mixture(DensityPredictBatch(mix.means), DensityPredictBatch(mix.covs),
            AddToAll(mix.weigths_log, NpLog(survival_probability)))

PoissonRFS_predict(survival_probability) ==
    /\ WithinDecay(PoissonRFS_predict_result(intensity, survival_probability).weigths_log)
    /\ intensity' = PoissonRFS_predict_result(intensity, survival_probability)
    /\ ppp_last' = PppCall("predict", NpLog(survival_probability), 0, "ok", intensity)
    /\ ppp_prev' = PppNote(ppp_last)
    /\ UNCHANGED <<berns, bern_last, new_tracks, targets_last, max_track_id>>

\* PoissonRFS.birth
birth_result(mix, new_components) == MixtureIAdd(mix, new_components)

birth(new_components) ==
    /\ MixtureLen(intensity) + MixtureLen(new_components) <= MaxComponents
    /\ intensity' = birth_result(intensity, new_components)
    /\ ppp_last' = PppCall("birth", NegInf, MixtureLen(new_components), "ok", intensity)
    /\ ppp_prev' = PppNote(ppp_last)
    /\ UNCHANGED <<berns, bern_last, new_tracks, targets_last, max_track_id>>

BirthMixtures ==
    {MixtureOf(cs) : cs \in UNION {[1..m -> Components] : m \in 0..MaxBirth}}


(***************************************************************************)
(* Exact rationals <<num, den>>, den > 0, in lowest terms.                 *)
(***************************************************************************)
RECURSIVE GCD(_, _)
GCD(a, b) == IF b = 0 THEN a ELSE GCD(b, a % b)

Norm(q) == IF q[1] = 0 THEN <<0, 1>> ELSE <<q[1] \div GCD(q[1], q[2]), q[2] \div GCD(q[1], q[2])>>

RatAdd(a, b) == Norm(<<a[1] * b[2] + b[1] * a[2], a[2] * b[2]>>)

RatMul(a, b) == Norm(<<a[1] * b[1], a[2] * b[2]>>)

\* a / b, b not zero
RatDiv(a, b) == Norm(<<a[1] * b[2], a[2] * b[1]>>)

RatLeq(a, b) == a[1] * b[2] <= b[1] * a[2]

Zero == <<0, 1>>

One == <<1, 1>>

InUnitInterval(r) == RatLeq(Zero, r) /\ RatLeq(r, One)

RECURSIVE Pow2(_)
Pow2(n) == IF n = 0 THEN 1 ELSE 2 * Pow2(n - 1)

\* exp of a log-domain value
Exp(x) == IF x.k = "ninf" THEN Zero
          ELSE IF x.v >= 0 THEN <<Pow2(x.v), 1>> ELSE <<1, Pow2(-x.v)>>

\* the float type of an arithmetic result: numpy's float64 wins over Python's float
Float(a, b) == IF a = "np" \/ b = "np" THEN "np" ELSE "py"

Floats == {"py", "np"}

(***************************************************************************)
(* The density engine's measurement side, and the model collaborators.     *)
(***************************************************************************)
Measurements == States

MeasModels == {"MeasurementModel", "object"}

\* isinstance(meas_model, MeasurementModel)
IsMeasurementModel(meas_model) == meas_model = "MeasurementModel"

\* density.update(state, z, meas_model): Kalman measurement update
DensityUpdate(x, z) == (x + z + 1) % NumStates

\* density.predict_loglikelihood(state, z, meas_model)
PredictLogLik(x, z) == IF x = z THEN Fin(0) ELSE Fin(-1)

(***************************************************************************)
(* Bernoulli.                                                              *)
(***************************************************************************)
\* Bernoulli.__init__(state, existence_probability); float is the type of the
\* number held
Bernoulli(state, existence_probability, float) ==
    [state |-> state, existence_probability |-> existence_probability, float |-> float]

\* stands where a call that raised returned nothing
NoBernoulli == Bernoulli(0, <<0, 1>>, "py")

\* a number a call computed: none yet, a value, or NaN
NoValue == [k |-> "none", v |-> Zero]

Value(q) == [k |-> "num", v |-> q]

NaN == [k |-> "nan", v |-> Zero]

\* what a call did: the collaborator calls that were handed a meas_model no
\* isinstance had checked yet, the receiver after it, the number it computed for
\* the posterior existence probability, and how it ended: outcome "ok" with the
\* object returned and the log-likelihood returned beside it (log(q), kept as
\* q), or the exception raised
Done(unchecked, self_after, computed, outcome, returned, log_likelihood) ==
    [unchecked |-> unchecked, self_after |-> self_after, computed |-> computed,
     outcome |-> outcome, returned |-> returned, log_likelihood |-> log_likelihood]

\* Bernoulli.predict: the product is computed, the receiver's state is rebound
\* to the predicted density, and the unbound name next_state ends the call
Bernoulli_predict(self, survival_probability) ==
    Done(<<>>,
         Bernoulli(DensityPredict(self.state), self.existence_probability, self.float),
         Value(RatMul(survival_probability, self.existence_probability)),
         "NameError",
         NoBernoulli,
         NoValue)

\* Bernoulli.undetected_update, line 74: r(1 - p_d) / (1 - r + r(1 - p_d)).
\* On a zero denominator Python's float raises and numpy's float64 gives NaN.
posterior_existence_probability(r, detection_probability, float) ==
    LET numerator == RatMul(r, OneMinus(detection_probability))
        denominator == RatAdd(OneMinus(r), RatMul(r, OneMinus(detection_probability)))
    IN  IF denominator # Zero THEN Value(RatDiv(numerator, denominator))
        ELSE IF float = "np" THEN NaN
        ELSE NoValue

\* Bernoulli.undetected_update: the posterior is computed, then the constructor
\* is called with the keyword initial_state, which __init__ does not take; the
\* likelihood of lines 82-87 is never reached
Bernoulli_undetected_update(self, detection_probability, p_float) ==
    LET computed == posterior_existence_probability(self.existence_probability,
                        detection_probability, Float(self.float, p_float))
    IN  IF computed = NoValue
        THEN Done(<<>>, self, computed, "ZeroDivisionError", NoBernoulli, NoValue)
        ELSE Done(<<>>, self, computed, "TypeError", NoBernoulli, NoValue)

\* Bernoulli.detected_update_likelihood: one log-likelihood per measurement, each
\* the sum of the three terms of the record
detected_update_likelihood(self, measurements, meas_model, detection_probability) ==
    IF ~IsMeasurementModel(meas_model)
    THEN [unchecked |-> <<>>, outcome |-> "AssertionError", returned |-> <<>>]
    ELSE [unchecked |-> <<>>, outcome |-> "ok",
          returned |-> [i \in 1..Len(measurements) |->
                           [predicted |-> PredictLogLik(self.state, measurements[i]),
                            log_detection |-> NpLog(detection_probability),
                            log_existence_of |-> self.existence_probability]]]

\* detected_update_state with the input's existence probability carried over
detected_update_state_keeps_r(bern, z, meas_model) ==
    IF ~IsMeasurementModel(meas_model)
    THEN Done(<<>>, bern, NoValue, "AssertionError", NoBernoulli, NoValue)
    ELSE Done(<<>>, bern, NoValue, "ok",
              Bernoulli(DensityUpdate(bern.state, z), bern.existence_probability, "py"), NoValue)

\* Bernoulli.detected_update_state
detected_update_state(bern, z, meas_model) ==
    IF ~IsMeasurementModel(meas_model)
    THEN Done(<<>>, bern, NoValue, "AssertionError", NoBernoulli, NoValue)
    ELSE Done(<<>>, bern, NoValue, "ok",
              Bernoulli(DensityUpdate(bern.state, z), One, "py"), NoValue)

(***************************************************************************)
(* PoissonRFS.detected_update and get_targets_detected_for_first_time.     *)
(***************************************************************************)
SingleTargetHypothesis(bernoulli, log_likelihood, cost, meas_idx, sth_id) ==
    [bernoulli |-> bernoulli, log_likelihood |-> log_likelihood, cost |-> cost,
     meas_idx |-> meas_idx, sth_id |-> sth_id]

\* log(q) and -log(q) of a rational q, kept by their argument
LogOf(q) == [sign |-> 1, log_of |-> q]

Negated(x) == [sign |-> -x.sign, log_of |-> x.log_of]

\* stands where a call that raised returned nothing
NoHypothesis == SingleTargetHypothesis(NoBernoulli, LogOf(One), LogOf(One), 0, 0)

RECURSIVE SumExp(_)
SumExp(log_weights) ==
    IF log_weights = <<>> THEN Zero
    ELSE RatAdd(Exp(Head(log_weights)), SumExp(Tail(log_weights)))

\* index of the first greatest log-weight
RECURSIVE ArgMax(_, _, _)
ArgMax(log_weights, i, best) ==
    IF i > Len(log_weights) THEN best
    ELSE ArgMax(log_weights, i + 1,
                IF LogGt(log_weights[i], log_weights[best]) THEN i ELSE best)

\* density.moment_matching_vectorized: one density for the whole mixture
moment_matching_vectorized(log_weights, components) == components[ArgMax(log_weights, 1, 1)]

ClutterIntensities == {<<1, 4>>, <<1, 1>>}

\* PoissonRFS.detected_update on a mixture of at least one component
detected_update(meas, mix, meas_model, detection_probability, clutter_intensity) ==
    LET meas_idx == meas[1]
        measurement == meas[2]
        n == Len(mix.weigths_log.data)
        updated_ppp_components == [i \in 1..n |-> DensityUpdate(mix.means.data[i], measurement)]
        loglikelihoods == [i \in 1..n |-> PredictLogLik(mix.means.data[i], measurement)]
        log_weights == [i \in 1..n |->
                           LogAdd(LogAdd(mix.weigths_log.data[i], loglikelihoods[i]),
                                  NpLog(detection_probability))]
        sum == SumExp(log_weights)
        merged_state == moment_matching_vectorized(log_weights, updated_ppp_components)
        likelihood == RatAdd(sum, clutter_intensity)
        existence_probability == RatDiv(sum, likelihood)
    IN  IF ~IsMeasurementModel(meas_model)
        THEN [outcome |-> "AssertionError", unchecked |-> <<>>,
              returned |-> NoHypothesis]
        ELSE [outcome |-> "ok", unchecked |-> <<>>,
              returned |-> SingleTargetHypothesis(
                               Bernoulli(merged_state, existence_probability, "np"),
                               LogOf(likelihood), Negated(LogOf(likelihood)), meas_idx, 0)]

\* Track.from_sth: a track of one hypothesis under a new identifier
Track_from_sth(sth, track_id) == [track_id |-> track_id, sth |-> sth]

\* new_tracks[key] = value on a dict
DictPut(d, key, value) == [k \in DOMAIN d \cup {key} |-> IF k = key THEN value ELSE d[k]]

\* the loop of lines 83-86 from measurement index i on; first the identifier
\* that Track.from_sth hands out for index 0
RECURSIVE CollectTracks(_, _, _, _)
CollectTracks(hypotheses, i, first, tracks) ==
    IF i >= Len(hypotheses) THEN tracks
    ELSE CollectTracks(hypotheses, i + 1, first,
                       DictPut(tracks, Track_from_sth(hypotheses[i + 1], first + i).track_id,
                               Track_from_sth(hypotheses[i + 1], first + i)))

\* the list comprehension with the measurement index counted from one
new_single_target_hypotheses_from_one(mix, measurements, clutter_intensity, meas_model, detection_probability) ==
    [j \in 1..Len(measurements) |->
        detected_update(<<j, measurements[j]>>, mix, meas_model,
                        detection_probability, clutter_intensity).returned]

\* the list comprehension of lines 68-73
new_single_target_hypotheses(mix, measurements, clutter_intensity, meas_model, detection_probability) ==
    [j \in 1..Len(measurements) |->
        detected_update(<<j - 1, measurements[j]>>, mix, meas_model,
                        detection_probability, clutter_intensity).returned]

EmptyDict == [k \in {} |-> 0]

\* PoissonRFS.get_targets_detected_for_first_time on a mixture of at least one
\* component.  gain_raises: whether numpy_get_Kalman_gain, which is called first
\* and with any meas_model, raises on an object that is no MeasurementModel.
get_targets_detected_for_first_time(mix, measurements, clutter_intensity, meas_model, detection_probability, gain_raises, first) ==
    IF ~IsMeasurementModel(meas_model) /\ gain_raises
    THEN [unchecked |-> <<"numpy_get_Kalman_gain">>, outcome |-> "raised by numpy_get_Kalman_gain",
          returned |-> EmptyDict, made |-> 0]
    ELSE IF ~IsMeasurementModel(meas_model) /\ Len(measurements) > 0
    THEN [unchecked |-> <<"numpy_get_Kalman_gain">>, outcome |-> "AssertionError",
          returned |-> EmptyDict, made |-> 0]
    ELSE [unchecked |-> <<"numpy_get_Kalman_gain">>, outcome |-> "ok",
          returned |-> CollectTracks(
                           new_single_target_hypotheses(mix, measurements, clutter_intensity,
                                                        meas_model, detection_probability),
                           0, first, EmptyDict),
          made |-> Len(measurements)]

(***************************************************************************)
(* The calls on Bernoulli objects.  berns holds the objects by identity;   *)
(* a call's record keeps its arguments, what it did and berns before it.   *)
(***************************************************************************)
MaxBerns == 2           \* Bernoulli objects alive at most
MaxMeasurements == 2    \* measurements of one scan at most
MaxTrackId == 3         \* track identifiers handed out at most

BernCall(op, self, p, p_float, z, meas_model, done, returned, before) ==
    [op |-> op, self |-> self, p |-> p, p_float |-> p_float, z |-> z,
     meas_model |-> meas_model, unchecked |-> done.unchecked, outcome |-> done.outcome,
     computed |-> done.computed, returned |-> returned,
     returned_log_likelihood |-> done.log_likelihood,
     before |-> before]

NoBernCall ==
    BernCall("init", 0, Zero, "py", 0, "MeasurementModel",
             Done(<<>>, NoBernoulli, NoValue, "ok", NoBernoulli, NoValue), 0, <<>>)

\* the caller builds a Bernoulli: Bernoulli(state, existence_probability)
NewBernoulli(state, r, float) ==
    /\ Len(berns) < MaxBerns
    /\ berns' = Append(berns, Bernoulli(state, r, float))
    /\ bern_last' = BernCall("__init__", 0, r, float, 0, "MeasurementModel",
                             Done(<<>>, NoBernoulli, NoValue, "ok", NoBernoulli, NoValue),
                             Len(berns) + 1, berns)
    /\ UNCHANGED <<intensity, ppp_last, ppp_prev, new_tracks, targets_last, max_track_id>>

\* PoissonRFS.detected_update (a static method) called on a mixture: the
\* Bernoulli of the hypothesis it returns is born
Born(mix, z, meas_model, detection_probability, clutter_intensity) ==
    LET done == detected_update(<<0, z>>, mix, meas_model, detection_probability,
                                clutter_intensity)
    IN  /\ Len(berns) < MaxBerns
        /\ berns' = IF done.outcome = "ok" THEN Append(berns, done.returned.bernoulli) ELSE berns
        /\ bern_last' = BernCall("PoissonRFS.detected_update", 0, detection_probability, "py", z,
                                 meas_model,
                                 Done(done.unchecked, NoBernoulli, NoValue, done.outcome, NoBernoulli, NoValue),
                                 IF done.outcome = "ok" THEN Len(berns) + 1 ELSE 0, berns)
        /\ UNCHANGED <<intensity, ppp_last, ppp_prev, new_tracks, targets_last, max_track_id>>

\* berns after a call on berns[i]: the receiver as the call left it, and the
\* object the call returned, if it returned one
After(i, done) ==
    IF done.outcome = "ok"
    THEN Append([berns EXCEPT ![i] = done.self_after], done.returned)
    ELSE [berns EXCEPT ![i] = done.self_after]

\* where the returned object is (0: nothing was returned)
ReturnedAt(done) == IF done.outcome = "ok" THEN Len(berns) + 1 ELSE 0

\* berns[i].predict(motion_model, survival_probability)
Predict(i, survival_probability) ==
    LET done == Bernoulli_predict(berns[i], survival_probability)
    IN  /\ done.outcome = "ok" => Len(berns) < MaxBerns
        /\ berns' = After(i, done)
        /\ bern_last' = BernCall("predict", i, survival_probability, "py", 0,
                                 "MeasurementModel", done, ReturnedAt(done), berns)
        /\ UNCHANGED <<intensity, ppp_last, ppp_prev, new_tracks, targets_last, max_track_id>>

\* berns[i].undetected_update(detection_probability)
UndetectedUpdate(i, detection_probability, p_float) ==
    LET done == Bernoulli_undetected_update(berns[i], detection_probability, p_float)
    IN  /\ done.outcome = "ok" => Len(berns) < MaxBerns
        /\ berns' = After(i, done)
        /\ bern_last' = BernCall("undetected_update", i, detection_probability, p_float, 0,
                                 "MeasurementModel", done, ReturnedAt(done), berns)
        /\ UNCHANGED <<intensity, ppp_last, ppp_prev, new_tracks, targets_last, max_track_id>>

\* berns[i].detected_update_likelihood(measurements, meas_model, detection_probability),
\* a scan of one measurement z; the vector returned is no Bernoulli
DetectedUpdateLikelihood(i, z, meas_model, detection_probability) ==
    LET done == detected_update_likelihood(berns[i], <<z>>, meas_model, detection_probability)
    IN  /\ berns' = berns
        /\ bern_last' = BernCall("detected_update_likelihood", i, detection_probability, "py", z,
                                 meas_model,
                                 Done(done.unchecked, berns[i], NoValue, done.outcome, NoBernoulli, NoValue),
                                 0, berns)
        /\ UNCHANGED <<intensity, ppp_last, ppp_prev, new_tracks, targets_last, max_track_id>>

\* Bernoulli.detected_update_state(berns[i], z, meas_model)
DetectedUpdateState(i, z, meas_model) ==
    LET done == detected_update_state(berns[i], z, meas_model)
    IN  /\ done.outcome = "ok" => Len(berns) < MaxBerns
        /\ berns' = After(i, done)
        /\ bern_last' = BernCall("detected_update_state", i, Zero, "py", z, meas_model, done,
                                 ReturnedAt(done), berns)
        /\ UNCHANGED <<intensity, ppp_last, ppp_prev, new_tracks, targets_last, max_track_id>>

(***************************************************************************)
(* The call of get_targets_detected_for_first_time on the intensity.       *)
(***************************************************************************)
TargetsCall(measurements, meas_model, done) ==
    [op |-> "get_targets_detected_for_first_time", measurements |-> measurements,
     meas_model |-> meas_model, unchecked |-> done.unchecked, outcome |-> done.outcome]

NoTargetsCall ==
    [op |-> "init", measurements |-> <<>>, meas_model |-> "MeasurementModel",
     unchecked |-> <<>>, outcome |-> "ok"]

Scans == UNION {[1..n -> Measurements] : n \in 0..MaxMeasurements}

GetTargets(measurements, clutter_intensity, meas_model, detection_probability, gain_raises) ==
    LET done == get_targets_detected_for_first_time(intensity, measurements, clutter_intensity,
                    meas_model, detection_probability, gain_raises, max_track_id)
    IN  /\ MixtureLen(intensity) > 0
        /\ max_track_id + Len(measurements) <= MaxTrackId
        /\ gain_raises => ~IsMeasurementModel(meas_model)
        /\ new_tracks' = done.returned
        /\ max_track_id' = max_track_id + done.made
        /\ targets_last' = TargetsCall(measurements, meas_model, done)
        /\ UNCHANGED <<intensity, ppp_last, ppp_prev, berns, bern_last>>

(***************************************************************************)
(* Specifications.                                                         *)
(***************************************************************************)
NoPppCall == PppCall("init", NegInf, 0, "ok", MixtureOf(<<>>))

\* the mixtures a PoissonRFS is built on
InitMixtures == {MixtureOf(cs) : cs \in UNION {[1..m -> Components] : m \in 0..MaxInit}}

\* the mixtures PoissonRFS.detected_update is called on directly
BornMixtures == {MixtureOf(cs) : cs \in UNION {[1..m -> Components] : m \in 1..MaxBirth}}

Init ==
    /\ intensity \in InitMixtures
    /\ ppp_last = NoPppCall
    /\ ppp_prev = PppNote(NoPppCall)
    /\ berns = <<>>
    /\ bern_last = NoBernCall
    /\ new_tracks = EmptyDict
    /\ targets_last = NoTargetsCall
    /\ max_track_id = 0

NextPoisson ==
    \/ \E p \in Probabilities : PoissonRFS_predict(p)
    \/ \E new \in BirthMixtures : birth(new)
    \/ \E t \in Thresholds : prune(t)
    \/ \E p \in Probabilities : undetected_update(p)

NextBernoulli ==
    \/ \E x \in States, r \in Probabilities, f \in Floats : NewBernoulli(x, r, f)
    \/ \E mix \in BornMixtures, z \in Measurements, m \in MeasModels, p \in Probabilities,
          c \in ClutterIntensities : Born(mix, z, m, p, c)
    \/ \E i \in 1..Len(berns), p \in Probabilities : Predict(i, p)
    \/ \E i \in 1..Len(berns), p \in Probabilities, f \in Floats : UndetectedUpdate(i, p, f)
    \/ \E i \in 1..Len(berns), z \in Measurements, m \in MeasModels, p \in Probabilities :
          DetectedUpdateLikelihood(i, z, m, p)
    \/ \E i \in 1..Len(berns), z \in Measurements, m \in MeasModels : DetectedUpdateState(i, z, m)

NextTargets ==
    \E ms \in Scans, c \in ClutterIntensities, m \in MeasModels, p \in Probabilities,
       g \in BOOLEAN : GetTargets(ms, c, m, p, g)

Next == NextPoisson \/ NextBernoulli \/ NextTargets

Spec == Init /\ [][Next]_vars

\* the PoissonRFS alone
SpecPoisson == Init /\ [][NextPoisson]_vars

\* the Bernoulli objects alone, beside a PoissonRFS that is left as built
InitBernoulli == Init /\ intensity = MixtureOf(<<>>)

SpecBernoulli == InitBernoulli /\ [][NextBernoulli]_vars

\* new-target extraction alone, on the PoissonRFS as built
SpecTargets == Init /\ [][NextTargets]_vars

(***************************************************************************)
(* Properties of new-target extraction.                                    *)
(***************************************************************************)
TargetsCalled == targets_last.op = "get_targets_detected_for_first_time"

\* C1: get_targets_detected_for_first_time, called with n measurements and a
\* valid measurement model on a non-empty intensity, returns a mapping of
\* exactly n tracks, each under its own identifier, and the meas_idx values of
\* their hypotheses are exactly 0..n-1 (with n entries: a permutation).
C1_OneTrackPerMeasurement ==
    (TargetsCalled /\ IsMeasurementModel(targets_last.meas_model)) =>
        /\ targets_last.outcome = "ok"
        /\ Cardinality(DOMAIN new_tracks) = Len(targets_last.measurements)
        /\ {new_tracks[k].sth.meas_idx : k \in DOMAIN new_tracks}
               = 0..(Len(targets_last.measurements) - 1)
        /\ \A k \in DOMAIN new_tracks : new_tracks[k].track_id = k

\* a call with two measurements has returned its two tracks
C1_Witness ==
    /\ TargetsCalled
    /\ IsMeasurementModel(targets_last.meas_model)
    /\ Len(targets_last.measurements) = 2
    /\ Cardinality(DOMAIN new_tracks) = 2

\* C9: every call of Bernoulli.detected_update_likelihood,
\* Bernoulli.detected_update_state, PoissonRFS.detected_update and
\* PoissonRFS.get_targets_detected_for_first_time with an object that is no
\* MeasurementModel ends in the type-constraint error (the failed isinstance
\* assertion) before any collaborator was handed the object, for every
\* measurement list, the empty one included.
C9_CapabilityCheckedFirst ==
    /\ (/\ bern_last.op \in {"detected_update_likelihood", "detected_update_state",
                             "PoissonRFS.detected_update"}
        /\ ~IsMeasurementModel(bern_last.meas_model))
           => (bern_last.outcome = "AssertionError" /\ bern_last.unchecked = <<>>)
    /\ (TargetsCalled /\ ~IsMeasurementModel(targets_last.meas_model))
           => (targets_last.outcome = "AssertionError" /\ targets_last.unchecked = <<>>)

(***************************************************************************)
(* Properties of the Bernoulli operations.                                 *)
(***************************************************************************)
Receiver == bern_last.before[bern_last.self]

ReturnedNew ==
    /\ bern_last.outcome = "ok"
    /\ bern_last.returned = Len(bern_last.before) + 1
    /\ Len(berns) = Len(bern_last.before) + 1

OthersUnchanged == \A j \in 1..Len(bern_last.before) : berns[j] = bern_last.before[j]

\* the call was away from the singularity r = 1, detection_probability = 1
Regular == RatAdd(OneMinus(Receiver.existence_probability),
                  RatMul(Receiver.existence_probability, OneMinus(bern_last.p))) # Zero

\* C2: every Bernoulli has its existence_probability in [0,1], and predict and
\* (away from the singularity) undetected_update yield a Bernoulli whose
\* existence_probability is in [0,1].
C2_ExistenceStaysInUnitInterval ==
    /\ \A i \in 1..Len(berns) : InUnitInterval(berns[i].existence_probability)
    /\ (bern_last.op = "predict" \/ (bern_last.op = "undetected_update" /\ Regular))
           => (ReturnedNew /\ InUnitInterval(berns[bern_last.returned].existence_probability))

\* C3: predict returns a new Bernoulli whose existence_probability is
\* survival_probability times the receiver's and whose state is the predicted
\* state of the receiver, and leaves the receiver as it was.
C3_PredictReturnsNew ==
    bern_last.op = "predict" =>
        /\ ReturnedNew
        /\ berns[bern_last.returned].existence_probability
               = RatMul(bern_last.p, Receiver.existence_probability)
        /\ berns[bern_last.returned].state = DensityPredict(Receiver.state)
        /\ OthersUnchanged

\* C4: undetected_update, away from the singularity, returns a posterior
\* Bernoulli with existence_probability r q / (1 - r + r q) and the receiver's
\* state, together with the log-likelihood log(1 - r + r q) (kept by its
\* argument), and leaves the receiver as it was.
C4_UndetectedUpdateReturnsPosterior ==
    (bern_last.op = "undetected_update" /\ Regular) =>
        /\ ReturnedNew
        /\ berns[bern_last.returned].existence_probability
               = RatDiv(RatMul(Receiver.existence_probability, OneMinus(bern_last.p)),
                        RatAdd(OneMinus(Receiver.existence_probability),
                               RatMul(Receiver.existence_probability, OneMinus(bern_last.p))))
        /\ berns[bern_last.returned].state = Receiver.state
        /\ bern_last.returned_log_likelihood
               = Value(RatAdd(OneMinus(Receiver.existence_probability),
                              RatMul(Receiver.existence_probability, OneMinus(bern_last.p))))
        /\ OthersUnchanged

\* the errors that report a value outside an operation's domain
DomainErrors == {"ValueError", "ArithmeticError", "ZeroDivisionError", "FloatingPointError"}

\* C5: undetected_update at the singularity (existence_probability = 1 and
\* detection_probability = 1) ends in a domain error, with no NaN computed on
\* the way.
C5_SingularityFailsFast ==
    (bern_last.op = "undetected_update" /\ ~Regular) =>
        /\ bern_last.outcome \in DomainErrors
        /\ bern_last.computed # NaN

\* C8: detected_update_state with a valid measurement model returns a new
\* Bernoulli whose existence_probability is exactly 1 and whose state is the
\* measurement update of the input's state, and leaves the input as it was.
C8_DetectedUpdateState ==
    (bern_last.op = "detected_update_state" /\ IsMeasurementModel(bern_last.meas_model)) =>
        /\ ReturnedNew
        /\ berns[bern_last.returned].existence_probability = One
        /\ berns[bern_last.returned].state = DensityUpdate(Receiver.state, bern_last.z)
        /\ OthersUnchanged

\* detected_update_state has returned for an input of existence_probability 0
C8_Witness ==
    /\ bern_last.op = "detected_update_state"
    /\ IsMeasurementModel(bern_last.meas_model)
    /\ bern_last.outcome = "ok"
    /\ Receiver.existence_probability = Zero

(***************************************************************************)
(* Properties of the operations on the intensity.                          *)
(***************************************************************************)
\* the elements of data whose log-weight is greater than threshold, in order
RECURSIVE Kept(_, _, _)
Kept(data, weights, threshold) ==
    IF data = <<>> THEN <<>>
    ELSE (IF LogGt(Head(weights), threshold) THEN <<Head(data)>> ELSE <<>>)
         \o Kept(Tail(data), Tail(weights), threshold)

\* the same component values in the same order
SameComponents(a, b) ==
    /\ a.means.data = b.means.data
    /\ a.covs.data = b.covs.data
    /\ a.weigths_log.data = b.weigths_log.data

AllFinite(mix) == \A i \in 1..Len(mix.weigths_log.data) : mix.weigths_log.data[i].k = "fin"

\* C6: prune(threshold) keeps, in their order, exactly the components whose
\* log_weight is greater than threshold, whatever the size of the mixture, and
\* a second prune with the same threshold leaves means, covariances and
\* log-weights identical to the result of the first.
C6_PruneKeepsAndIsIdempotent ==
    ppp_last.op = "prune" =>
        /\ intensity.means.data
               = Kept(ppp_last.before.means.data, ppp_last.before.weigths_log.data, ppp_last.arg)
        /\ intensity.covs.data
               = Kept(ppp_last.before.covs.data, ppp_last.before.weigths_log.data, ppp_last.arg)
        /\ intensity.weigths_log.data
               = Kept(ppp_last.before.weigths_log.data, ppp_last.before.weigths_log.data,
                      ppp_last.arg)
        /\ (ppp_prev.op = "prune" /\ ppp_prev.arg = ppp_last.arg)
               => intensity = ppp_last.before

BirthThenPruneAll ==
    /\ ppp_last.op = "prune"
    /\ ppp_last.arg = NegInf
    /\ ppp_prev.op = "birth"

\* C7 as claimed: after birth, prune(-infinity) removes nothing, for log-weights
\* that are finite or -infinity: the intensity has the same components in the
\* same order as right after birth.
C7_BirthThenPruneAllKeepsAll ==
    BirthThenPruneAll => SameComponents(intensity, ppp_last.before)

\* C7 as amended: after birth, prune(-infinity) removes nothing when every
\* log-weight of the intensity is finite: the components keep their values and
\* their order (a component of log-weight -infinity is removed).
C7_BirthThenPruneAllKeepsFinite ==
    (BirthThenPruneAll /\ AllFinite(ppp_last.before))
        => SameComponents(intensity, ppp_last.before)

\* birth, then prune(-infinity) on three components of finite log-weight
C7_Witness ==
    /\ BirthThenPruneAll
    /\ AllFinite(ppp_last.before)
    /\ Len(ppp_last.before.weigths_log.data) = 3
    /\ Len(intensity.weigths_log.data) = 3

====
